---- MODULE Spec2Model ----
(***************************************************************************)
(* wtf.replay.graphics.Visualizer (src/wtf/replay/graphics/visualizer.js). *)
(*                                                                         *)
(* The model keeps the JavaScript object semantics the class relies on:    *)
(*  - objects live in a heap and are held by reference, so that            *)
(*    goog.object.clone (a new object with the same own properties) and    *)
(*    an alias of the default table are different things;                  *)
(*  - a property read obj[name] looks at the object's own properties and   *)
(*    then at Object.prototype;                                            *)
(*  - `!x` and `x && y` go through ToBoolean.                              *)
(* goog.asserts.assert is modelled with assertions enabled: it throws when *)
(* its condition is falsy and the statements after it do not run.          *)
(* Callbacks (mutator handlers) are opaque: an invocation is recorded with *)
(* its this-value and its three arguments and returns normally.            *)
(***************************************************************************)
EXTENDS Integers, Sequences, FiniteSets, TLC

\* Largest number of registerMutator calls made by a subclass's setupMutators.
MaxSetup == 2

Instances == {"A", "B"}

\* Event names. "toString" is a member of Object.prototype.
Names == {"draw", "clear", "toString"}
ObjectPrototypeNames == {"toString"}

\* The WebGLRenderingContext handed to the handlers.
Contexts == {"gl"}
ArgumentData == {"argsX", "argsY"}

----------------------------------------------------------------------------
\* JavaScript values.

Undefined == [type |-> "undefined"]

Fn(id) == [type |-> "function", id |-> id]

ToBoolean(v) == v.type # "undefined"

\* MutatorHandler values that subclasses register.
PreHandlers == {Fn("f")}
PostHandlers == {Fn("g")}

\* The Mutator typedef: a record with an optional pre and an optional post.
\* The mutators registered here have at least one of the two.
Mutator ==
  { m \in [type : {"object"}, pre : PreHandlers \cup {Undefined},
                              post : PostHandlers \cup {Undefined}] :
      ToBoolean(m.pre) \/ ToBoolean(m.post) }

\* v.prop for a value v (a property an object does not have reads undefined).
GetProp(v, prop) ==
  IF v.type = "object" /\ prop = "pre" THEN v.pre
  ELSE IF v.type = "object" /\ prop = "post" THEN v.post
  ELSE Undefined

\* An object used as a map: its own properties, as a function from a set of
\* names to values.
EmptyObject == [n \in {} |-> Undefined]

OwnKeys(obj) == DOMAIN obj

\* obj[name]: own property, else the member inherited from Object.prototype.
Get(obj, name) ==
  IF name \in DOMAIN obj THEN obj[name]
  ELSE IF name \in ObjectPrototypeNames THEN Fn("Object.prototype." \o name)
  ELSE Undefined

\* obj[name] = value.
Put(obj, name, value) ==
  [n \in (DOMAIN obj) \cup {name} |-> IF n = name THEN value ELSE obj[n]]

----------------------------------------------------------------------------
\* State.

VARIABLES
  heap,        \* the registry objects: heap[r] is the object with reference r,
               \* for each reference r in use
  status,      \* per instance: "none" (not constructed), "ready", or
               \* "failed" (its constructor threw)
  active,      \* this.active of each instance
  mutators,    \* this.mutators of each instance: a reference, 0 before it is set
  setupCalls,  \* per instance, what each call of setupMutators found
  last,        \* the latest operation, its inputs and the state it started in
  invoked      \* the callback invocations the latest operation made, in order

vars == <<heap, status, active, mutators, setupCalls, last, invoked>>

\* Reference of wtf.replay.graphics.Visualizer.MUTATORS_, the default table.
MUTATORS_ == 1

\* Contents the default table can have once the subclasses' static defaults
\* are in place; the base class leaves it empty.
DefaultTables ==
  { EmptyObject,
    Put(EmptyObject, "clear", [type |-> "object", pre |-> Fn("f"), post |-> Fn("g")]) }

\* The reference a registry cloned for instance i gets: one not in use.
NewRef(i) == IF i = "A" THEN 2 ELSE 3

\* The registry of a constructed instance.
Registry(i) == heap[mutators[i]]

NoOp ==
  [op |-> "none", inst |-> "-", name |-> "-", mutator |-> Undefined,
   gl |-> "-", args |-> "-", subStep |-> -1, threw |-> FALSE,
   before |-> EmptyObject, activeBefore |-> FALSE]

Init ==
  /\ heap \in {[r \in {MUTATORS_} |-> d] : d \in DefaultTables}
  /\ status = [i \in Instances |-> "none"]
  /\ active = [i \in Instances |-> FALSE]
  /\ mutators = [i \in Instances |-> 0]
  /\ setupCalls = [i \in Instances |-> <<>>]
  /\ last = NoOp
  /\ invoked = <<>>

----------------------------------------------------------------------------
\* Operations.

\* Variant of clone: hands back the object itself instead of a copy.
clone_Alias(h, src, new) == [heap |-> h, ref |-> src]

\* goog.object.clone(obj): a new object, at reference new, holding obj's own
\* properties.
clone(h, src, new) ==
  [heap |-> [r \in (DOMAIN h) \cup {new} |-> IF r = new THEN h[src] ELSE h[r]],
   ref |-> new]

\* Variant of registerMutator: the assertion lets an identical value through.
registerMutator_SameValueAllowed(h, ref, name, mutator) ==
  IF ToBoolean(Get(h[ref], name)) /\ Get(h[ref], name) # mutator
    THEN [heap |-> h, threw |-> TRUE]
    ELSE [heap |-> [h EXCEPT ![ref] = Put(h[ref], name, mutator)],
          threw |-> FALSE]

\* Variant of registerMutator: the assignment comes before the assertion.
registerMutator_AssignFirst(h, ref, name, mutator) ==
  [heap |-> [h EXCEPT ![ref] = Put(h[ref], name, mutator)],
   threw |-> ToBoolean(Get(h[ref], name))]

\* registerMutator(name, mutator) on the instance whose this.mutators is ref.
registerMutator(h, ref, name, mutator) ==
  IF ToBoolean(Get(h[ref], name))
    THEN [heap |-> h, threw |-> TRUE]
    ELSE [heap |-> [h EXCEPT ![ref] = Put(h[ref], name, mutator)],
          threw |-> FALSE]

\* What a subclass's setupMutators does: registerMutator for each pair of the
\* hook, in order; an assertion failure ends it. The base class's
\* setupMutators is the empty hook.
RECURSIVE runHook(_, _, _)
runHook(h, ref, hook) ==
  IF hook = <<>> THEN [heap |-> h, threw |-> FALSE]
  ELSE LET r == registerMutator(h, ref, hook[1].name, hook[1].mutator)
       IN IF r.threw THEN r ELSE runHook(r.heap, ref, Tail(hook))

\* this.setupMutators() on an instance whose fields are `this`.
\* saw: the instance as the call found it.
setupMutators(h, this, hook) ==
  LET r == IF this.mutators = 0
             THEN [heap |-> h, threw |-> hook # <<>>]
             ELSE runHook(h, this.mutators, hook)
  IN [heap |-> r.heap, threw |-> r.threw,
      saw |-> [active |-> this.active,
               seeded |-> this.mutators # 0,
               registry |-> IF this.mutators = 0 THEN EmptyObject
                            ELSE h[this.mutators]]]

Registration == [name : Names, mutator : Mutator]

RECURSIVE SeqsUpTo(_, _)
SeqsUpTo(S, n) ==
  IF n = 0 THEN {<<>>}
  ELSE LET shorter == SeqsUpTo(S, n - 1)
       IN shorter \cup {Append(q, x) : q \in shorter, x \in S}

Hooks == SeqsUpTo(Registration, MaxSetup)

\* Variant of the constructor: setupMutators runs before the registry is
\* cloned from the default table.
Visualizer_SetupBeforeClone(i, hook) ==
  /\ status[i] = "none"
  /\ LET this1 == [active |-> FALSE, mutators |-> 0]
         s == setupMutators(heap, this1, hook)
         c == clone(s.heap, MUTATORS_, NewRef(i))
         this2 == [this1 EXCEPT !.mutators = c.ref]
     IN /\ setupCalls' = [setupCalls EXCEPT ![i] = Append(@, s.saw)]
        /\ IF s.threw
             THEN /\ status' = [status EXCEPT ![i] = "failed"]
                  /\ UNCHANGED <<heap, active, mutators>>
             ELSE /\ status' = [status EXCEPT ![i] = "ready"]
                  /\ heap' = c.heap
                  /\ active' = [active EXCEPT ![i] = this2.active]
                  /\ mutators' = [mutators EXCEPT ![i] = this2.mutators]
        /\ last' = [NoOp EXCEPT !.op = "new", !.inst = i, !.threw = s.threw,
                                !.before = heap[MUTATORS_]]
        /\ invoked' = <<>>

\* new wtf.replay.graphics.Visualizer(playback), of a class whose
\* setupMutators is hook.
Visualizer(i, hook) ==
  /\ status[i] = "none"
  /\ LET this1 == [active |-> FALSE, mutators |-> 0]
         c == clone(heap, MUTATORS_, NewRef(i))
         this2 == [this1 EXCEPT !.mutators = c.ref]
     IN \E s \in {setupMutators(c.heap, this2, hook)} :
        /\ setupCalls' = [setupCalls EXCEPT ![i] = Append(@, s.saw)]
        /\ IF s.threw
             THEN /\ status' = [status EXCEPT ![i] = "failed"]
                  /\ UNCHANGED <<heap, active, mutators>>
             ELSE /\ status' = [status EXCEPT ![i] = "ready"]
                  /\ heap' = s.heap
                  /\ active' = [active EXCEPT ![i] = this2.active]
                  /\ mutators' = [mutators EXCEPT ![i] = this2.mutators]
        /\ last' = [NoOp EXCEPT !.op = "new", !.inst = i, !.threw = s.threw,
                                !.before = heap[MUTATORS_]]
        /\ invoked' = <<>>

\* this.registerMutator(name, mutator) called by subclass code on instance i.
RegisterMutator(i, name, mutator) ==
  /\ status[i] = "ready"
  /\ \E r \in {registerMutator(heap, mutators[i], name, mutator)} :
        /\ heap' = r.heap
        /\ last' = [NoOp EXCEPT !.op = "registerMutator", !.inst = i,
                                !.name = name, !.mutator = mutator,
                                !.threw = r.threw, !.before = Registry(i),
                                !.activeBefore = active[i]]
  /\ invoked' = <<>>
  /\ UNCHANGED <<status, active, mutators, setupCalls>>

\* this.active = b, by the subclass or its controller (the field is protected
\* and no method of the class writes it after construction).
SetActive(i, b) ==
  /\ status[i] = "ready"
  /\ active[i] # b
  /\ active' = [active EXCEPT ![i] = b]
  /\ last' = [NoOp EXCEPT !.op = "setActive", !.inst = i,
                          !.before = Registry(i), !.activeBefore = active[i]]
  /\ invoked' = <<>>
  /\ UNCHANGED <<heap, status, mutators, setupCalls>>

\* applyToSubStep(opt_subStepIndex): goog.nullFunction.
ApplyToSubStep(i, subStep) ==
  /\ status[i] = "ready"
  /\ last' = [NoOp EXCEPT !.op = "applyToSubStep", !.inst = i,
                          !.subStep = subStep,
                          !.before = Registry(i), !.activeBefore = active[i]]
  /\ invoked' = <<>>
  /\ UNCHANGED <<heap, status, active, mutators, setupCalls>>

\* fn.call(null, a1, a2, a3)
Call(fn, a1, a2, a3) == [fn |-> fn, this |-> "null", a1 |-> a1, a2 |-> a2, a3 |-> a3]

\* Variant of handlePreEvent: no check of this.active.
handlePreEvent_NoGate(h, isActive, ref, self, name, gl, args) ==
  LET associatedFunction == Get(h[ref], name)
  IN IF ToBoolean(associatedFunction)
        /\ ToBoolean(GetProp(associatedFunction, "pre"))
       THEN [threw |-> FALSE,
             calls |-> <<Call(GetProp(associatedFunction, "pre"),
                              self, gl, args)>>]
       ELSE [threw |-> FALSE, calls |-> <<>>]

\* Variant of handlePreEvent: the callback gets the arguments in the order
\* (gl, visualizer, arguments).
handlePreEvent_SwappedArgs(h, isActive, ref, self, name, gl, args) ==
  IF ~isActive THEN [threw |-> FALSE, calls |-> <<>>]
  ELSE LET associatedFunction == Get(h[ref], name)
       IN IF ToBoolean(associatedFunction)
             /\ ToBoolean(GetProp(associatedFunction, "pre"))
            THEN [threw |-> FALSE,
                  calls |-> <<Call(GetProp(associatedFunction, "pre"),
                                   gl, self, args)>>]
            ELSE [threw |-> FALSE, calls |-> <<>>]

\* Variant of handlePreEvent: no check that the lookup found something, so
\* reading .pre of undefined throws a TypeError.
handlePreEvent_NoLookupCheck(h, isActive, ref, self, name, gl, args) ==
  IF ~isActive THEN [threw |-> FALSE, calls |-> <<>>]
  ELSE LET associatedFunction == Get(h[ref], name)
       IN IF ~ToBoolean(associatedFunction)
            THEN [threw |-> TRUE, calls |-> <<>>]
            ELSE IF ToBoolean(GetProp(associatedFunction, "pre"))
                   THEN [threw |-> FALSE,
                         calls |-> <<Call(GetProp(associatedFunction, "pre"),
                                          self, gl, args)>>]
                   ELSE [threw |-> FALSE, calls |-> <<>>]

\* The body of handlePreEvent(it, gl) on instance self, with it.getName() =
\* name and it.getArguments() = args: the invocations it makes.
handlePreEvent(h, isActive, ref, self, name, gl, args) ==
  IF ~isActive THEN [threw |-> FALSE, calls |-> <<>>]
  ELSE LET associatedFunction == Get(h[ref], name)
       IN IF ToBoolean(associatedFunction)
             /\ ToBoolean(GetProp(associatedFunction, "pre"))
            THEN [threw |-> FALSE,
                  calls |-> <<Call(GetProp(associatedFunction, "pre"),
                                   self, gl, args)>>]
            ELSE [threw |-> FALSE, calls |-> <<>>]

\* Variant of handlePostEvent: a copy of handlePreEvent, dispatching .pre.
handlePostEvent_DispatchesPre(h, isActive, ref, self, name, gl, args) ==
  IF ~isActive THEN [threw |-> FALSE, calls |-> <<>>]
  ELSE LET associatedFunction == Get(h[ref], name)
       IN IF ToBoolean(associatedFunction)
             /\ ToBoolean(GetProp(associatedFunction, "pre"))
            THEN [threw |-> FALSE,
                  calls |-> <<Call(GetProp(associatedFunction, "pre"),
                                   self, gl, args)>>]
            ELSE [threw |-> FALSE, calls |-> <<>>]

\* The body of handlePostEvent(it, gl).
handlePostEvent(h, isActive, ref, self, name, gl, args) ==
  IF ~isActive THEN [threw |-> FALSE, calls |-> <<>>]
  ELSE LET associatedFunction == Get(h[ref], name)
       IN IF ToBoolean(associatedFunction)
             /\ ToBoolean(GetProp(associatedFunction, "post"))
            THEN [threw |-> FALSE,
                  calls |-> <<Call(GetProp(associatedFunction, "post"),
                                   self, gl, args)>>]
            ELSE [threw |-> FALSE, calls |-> <<>>]

\* Variant of HandlePreEvent: a lookup that finds nothing leaves an entry
\* without callbacks behind (this.mutators[name] = this.mutators[name] || {}).
HandlePreEvent_FillsIn(i, name, gl, args) ==
  /\ status[i] = "ready"
  /\ \E r \in {handlePreEvent(heap, active[i], mutators[i], i, name, gl, args)} :
        /\ invoked' = r.calls
        /\ last' = [NoOp EXCEPT !.op = "handlePreEvent", !.inst = i,
                                !.name = name, !.gl = gl, !.args = args,
                                !.threw = r.threw, !.before = Registry(i),
                                !.activeBefore = active[i]]
  /\ heap' = IF active[i] /\ ~ToBoolean(Get(Registry(i), name))
               THEN [heap EXCEPT ![mutators[i]] =
                       Put(@, name, [type |-> "object", pre |-> Undefined,
                                     post |-> Undefined])]
               ELSE heap
  /\ UNCHANGED <<status, active, mutators, setupCalls>>

HandlePreEvent(i, name, gl, args) ==
  /\ status[i] = "ready"
  /\ \E r \in {handlePreEvent(heap, active[i], mutators[i], i, name, gl, args)} :
        /\ invoked' = r.calls
        /\ last' = [NoOp EXCEPT !.op = "handlePreEvent", !.inst = i,
                                !.name = name, !.gl = gl, !.args = args,
                                !.threw = r.threw, !.before = Registry(i),
                                !.activeBefore = active[i]]
  /\ UNCHANGED <<heap, status, active, mutators, setupCalls>>

HandlePostEvent(i, name, gl, args) ==
  /\ status[i] = "ready"
  /\ \E r \in {handlePostEvent(heap, active[i], mutators[i], i, name, gl, args)} :
        /\ invoked' = r.calls
        /\ last' = [NoOp EXCEPT !.op = "handlePostEvent", !.inst = i,
                                !.name = name, !.gl = gl, !.args = args,
                                !.threw = r.threw, !.before = Registry(i),
                                !.activeBefore = active[i]]
  /\ UNCHANGED <<heap, status, active, mutators, setupCalls>>

\* opt_subStepIndex: omitted (-1) or an index.
SubSteps == {-1, 0}

\* Instances not yet constructed, and those whose constructor has returned.
Unconstructed == {i \in Instances : status[i] = "none"}
Constructed == {i \in Instances : status[i] = "ready"}

Next ==
  \/ \E i \in Unconstructed, hook \in Hooks : Visualizer(i, hook)
  \/ \E i \in Constructed, name \in Names, mutator \in Mutator :
       RegisterMutator(i, name, mutator)
  \/ \E i \in Constructed, b \in BOOLEAN : SetActive(i, b)
  \/ \E i \in Constructed, subStep \in SubSteps : ApplyToSubStep(i, subStep)
  \/ \E i \in Constructed, name \in Names, gl \in Contexts, args \in ArgumentData :
       HandlePreEvent(i, name, gl, args)
  \/ \E i \in Constructed, name \in Names, gl \in Contexts, args \in ArgumentData :
       HandlePostEvent(i, name, gl, args)

Spec == Init /\ [][Next]_vars

TypeOK ==
  /\ status \in [Instances -> {"none", "ready", "failed"}]
  /\ active \in [Instances -> BOOLEAN]
  /\ \A i \in Instances : mutators[i] \in {0} \cup DOMAIN heap
  /\ \A r \in DOMAIN heap :
       /\ OwnKeys(heap[r]) \subseteq Names
       /\ \A n \in OwnKeys(heap[r]) : heap[r][n] \in Mutator

----------------------------------------------------------------------------
\* Properties.

Dispatch == {"handlePreEvent", "handlePostEvent"}

\* The entry the latest operation's name had in the instance's registry when
\* the operation started.
HadEntry == last.name \in OwnKeys(last.before)
Entry == last.before[last.name]

\* C1: registerMutator(name, m) on an instance whose registry already holds an
\* entry under name fails the assertion and leaves the registry as it was,
\* whatever m is (the entry's own value included) and wherever the entry came
\* from (the default table included).
C1_DuplicateFailsFast ==
  (last.op = "registerMutator" /\ HadEntry)
    => /\ last.threw
       /\ Registry(last.inst) = last.before

C1_Witness ==
  /\ last.op = "registerMutator"
  /\ HadEntry
  /\ last.mutator = Entry
  /\ last.name \in OwnKeys(heap[MUTATORS_])
  /\ last.threw

\* C2: registerMutator(n, m) on a freshly constructed instance (its registry
\* is still the copy of the default table), for a name n that the default
\* table does not have, raises no failure, and a lookup of n in the
\* instance's registry then gives exactly m.
C2_FreshRegistrationSucceeds ==
  (/\ last.op = "registerMutator"
   /\ last.before = heap[MUTATORS_]
   /\ last.name \notin OwnKeys(heap[MUTATORS_]))
    => /\ ~last.threw
       /\ Get(Registry(last.inst), last.name) = last.mutator

\* C3: a registration on one instance, during its construction or later,
\* changes neither the default table nor the registry of any other instance,
\* so a name registered on A does not become resolvable on B.
C3_RegistryIsolation ==
  [][\A i \in Instances :
       (last'.inst = i /\ last'.op \in {"new", "registerMutator"})
         => /\ heap'[MUTATORS_] = heap[MUTATORS_]
            /\ \A j \in Instances \ {i} :
                 status[j] = "ready"
                   => /\ status'[j] = "ready"
                      /\ mutators'[j] = mutators[j]
                      /\ heap'[mutators[j]] = heap[mutators[j]]]_vars

C3_Witness ==
  /\ last.op = "registerMutator"
  /\ last.inst = "A"
  /\ ~last.threw
  /\ status["B"] = "ready"
  /\ last.name \in OwnKeys(Registry("A"))
  /\ ~ToBoolean(Get(Registry("B"), last.name))
  /\ ~ToBoolean(Get(heap[MUTATORS_], last.name))

\* C4: a handlePreEvent or handlePostEvent call made while active is false
\* invokes no callback, and a newly constructed instance is inactive.
C4_InactiveIsInert ==
  /\ (last.op \in Dispatch /\ ~last.activeBefore) => invoked = <<>>
  /\ (last.op = "new" /\ ~last.threw) => ~active[last.inst]

C4_Witness ==
  /\ last.op \in Dispatch
  /\ ~last.activeBefore
  /\ HadEntry
  /\ ToBoolean(Entry.pre)
  /\ ToBoolean(Entry.post)

\* C5: while active, handlePreEvent for a name whose entry has a pre callback
\* makes exactly one invocation: the entry's pre callback, with (the
\* instance, the context, the event's arguments).
C5_PreDispatch ==
  (last.op = "handlePreEvent" /\ last.activeBefore /\ HadEntry
     /\ ToBoolean(GetProp(Entry, "pre")))
    => invoked = <<Call(Entry.pre, last.inst, last.gl, last.args)>>

C5_Witness ==
  /\ last.op = "handlePreEvent"
  /\ last.activeBefore
  /\ HadEntry
  /\ ToBoolean(Entry.pre)
  /\ ToBoolean(Entry.post)
  /\ Cardinality(OwnKeys(last.before)) > 1
  /\ Len(invoked) = 1

\* C6: while active, for a name whose entry has only a post callback,
\* handlePreEvent invokes nothing; handlePostEvent for a name whose entry has
\* a post callback makes exactly one invocation, the post callback with (the
\* instance, the context, the event's arguments); and handlePostEvent never
\* invokes the entry's pre callback.
C6_PostDispatch ==
  /\ (last.op = "handlePreEvent" /\ last.activeBefore /\ HadEntry
        /\ ~ToBoolean(GetProp(Entry, "pre")))
       => invoked = <<>>
  /\ (last.op = "handlePostEvent" /\ last.activeBefore /\ HadEntry
        /\ ToBoolean(GetProp(Entry, "post")))
       => invoked = <<Call(Entry.post, last.inst, last.gl, last.args)>>
  /\ (last.op = "handlePostEvent" /\ HadEntry)
       => \A k \in 1..Len(invoked) : invoked[k].fn # Entry.pre

C6_Witness ==
  /\ last.op = "handlePostEvent"
  /\ last.activeBefore
  /\ HadEntry
  /\ ~ToBoolean(Entry.pre)
  /\ ToBoolean(Entry.post)
  /\ Len(invoked) = 1

\* C7: handlePreEvent and handlePostEvent for a name that has no mutator in
\* the instance's registry invoke no callback and raise no error, whether the
\* instance is active or not.
C7_UnknownNameIsNoOp ==
  (last.op \in Dispatch /\ ~HadEntry)
    => /\ invoked = <<>>
       /\ ~last.threw

C7_Witness ==
  /\ last.op \in Dispatch
  /\ last.activeBefore
  /\ ~HadEntry
  /\ last.name \notin ObjectPrototypeNames
  /\ last.before # EmptyObject

\* C8: setupMutators has been called exactly once on every instance whose
\* constructor has run and never on the others, whatever operations followed;
\* the call found active false and the registry holding the default table's
\* entries.
C8_SetupOnceAfterSeeding ==
  \A i \in Instances :
    /\ status[i] = "none" => setupCalls[i] = <<>>
    /\ status[i] # "none"
         => /\ Len(setupCalls[i]) = 1
            /\ setupCalls[i][1].active = FALSE
            /\ setupCalls[i][1].seeded
            /\ setupCalls[i][1].registry = heap[MUTATORS_]

C8_Witness ==
  /\ last.op \in Dispatch \cup {"registerMutator", "applyToSubStep"}
  /\ heap[MUTATORS_] # EmptyObject
  /\ Len(setupCalls[last.inst]) = 1
  /\ Registry(last.inst) # heap[MUTATORS_]

\* C9: a handlePreEvent, handlePostEvent or applyToSubStep call, in either
\* activation state, leaves every registry and the default table as they
\* were.
C9_DispatchLeavesRegistry ==
  [][last'.op \in Dispatch \cup {"applyToSubStep"}
       => heap' = heap /\ mutators' = mutators]_vars

C9_Witness ==
  /\ last.op = "handlePreEvent"
  /\ last.activeBefore
  /\ ~ToBoolean(Get(last.before, last.name))
  /\ Registry(last.inst) = last.before

\* C10: a registerMutator call that fails the assertion changes nothing: the
\* registries, the default table and the active flags are as before the call.
C10_FailedRegistrationChangesNothing ==
  [][(last'.op = "registerMutator" /\ last'.threw)
       => /\ heap' = heap
          /\ mutators' = mutators
          /\ active' = active
          /\ status' = status]_vars

C10_Witness ==
  /\ last.op = "registerMutator"
  /\ last.threw
  /\ HadEntry
  /\ last.mutator # Entry
  /\ active[last.inst]
  /\ Registry(last.inst)[last.name] = Entry

====
